---- MODULE Spec2Model ----
(***************************************************************************)
(* Model of go-git-repos (src/main.go): a linear pipeline that loads a     *)
(* configuration, lists the backup directory, enumerates the remote        *)
(* repositories page by page, computes the repositories missing locally,   *)
(* clones them and then fetches every entry of the backup directory.       *)
(*                                                                         *)
(* Names are sequences of byte codes, so that Go's string equality and the *)
(* byte-wise order of ioutil.ReadDir are modelled by what they do.         *)
(***************************************************************************)
EXTENDS Integers, Sequences, FiniteSets, TLC

\* ------------------------------------------------------------------ bounds
MaxRemote == 2      \* remote repositories in the full-pipeline specification
MaxTypes == 2       \* length of the configured list of visibility types
MaxLen == 2         \* length of the lists handed to getReposToClone in SpecDiff
MaxPages == 2       \* full pages of the remote in the enumeration specification

\* ------------------------------------------------------- program constants
PerPage == 100

\* ------------------------------------------------------------------- names
NameUpperA == <<65>>
NameA == <<97>>
NameB == <<98>>
NameC == <<99>>
NamePool == {NameUpperA, NameA, NameB}

\* name of the i-th repository of a large remote: "r" followed by 3 digits
RepoName(i) ==
  <<114, 48 + ((i \div 100) % 10), 48 + ((i \div 10) % 10), 48 + (i % 10)>>

Min(a, b) == IF a < b THEN a ELSE b

\* byte-wise lexicographic order of two names (sort order of ioutil.ReadDir)
LexLess(s, t) ==
  \E i \in 1..(Min(Len(s), Len(t)) + 1) :
     /\ \A j \in 1..(i - 1) : s[j] = t[j]
     /\ \/ i > Len(s) /\ i <= Len(t)
        \/ i <= Len(s) /\ i <= Len(t) /\ s[i] < t[i]

RECURSIVE SortedNames(_)
SortedNames(S) ==
  IF S = {} THEN <<>>
  ELSE LET m == CHOOSE x \in S : \A y \in S \ {x} : LexLess(x, y)
       IN <<m>> \o SortedNames(S \ {m})

\* strings.ToLower on one name, for the case-folding comparison below
LowerByte(b) == IF b >= 65 /\ b <= 90 THEN b + 32 ELSE b
ToLower(s) == [i \in 1..Len(s) |-> LowerByte(s[i])]

Range(s) == {s[i] : i \in 1..Len(s)}
SeqsUpTo(S, n) == UNION {[1..k -> S] : k \in 0..n}
NoRepeat(s) == \A i, j \in 1..Len(s) : i # j => s[i] # s[j]

\* ----------------------------------------------------------- configuration
VisibilityTypes == {"all", "public", "private"}
Affiliations == {"", "UFGInsurance"}
ZeroVars == [Affiliation |-> "", Types |-> <<>>]
AllVars == [Affiliation : Affiliations, Types : SeqsUpTo(VisibilityTypes, MaxTypes)]

\* a github.Repository: its name and whether it is private
Repos(names) == [Name : names, Private : BOOLEAN]

VARIABLES
  pc,               \* position of main
  vars,             \* GHVars as loaded
  disk,             \* names of the entries of the backup directory
  github,           \* the remote account's repositories, in API order
  backupDirFiles,   \* main: listing taken before enumeration
  tpeIx,            \* readOrganizationGithubRepos: index into vars.Types
  page,             \* enumeration: page to request next
  ghRepos,          \* enumeration: accumulator
  availableRepos,   \* main: enumeration result
  err,              \* main: err # nil
  reposToClone,     \* main: result of getReposToClone
  ix,               \* clone / fetch loop position
  numProcessed,     \* numReposProcessed / numReposUpdated, then main's numProcessed
  updFiles,         \* updateAllCachedRepos: backupDirectoryFiles
  apiLog,           \* history: API requests made, [variant, tpe, page, n]
  gitLog,           \* history: git invocations, [cmd, target, existed, ok]
  out,              \* standard output and log lines
  exitCode          \* -1 while running, then the exit status

svars == <<pc, vars, disk, github, backupDirFiles, tpeIx, page, ghRepos,
           availableRepos, err, reposToClone, ix, numProcessed, updFiles,
           apiLog, gitLog, out, exitCode>>

\* ------------------------------------------------------------ remote API
\* ListOptions{PerPage, Page}: the page-th slice of the listing
ListPage(list, p) ==
  SubSeq(list, (p - 1) * PerPage + 1, Min(p * PerPage, Len(list)))

MatchesType(r, tpe) ==
  \/ tpe = "all"
  \/ tpe = "public" /\ ~r.Private
  \/ tpe = "private" /\ r.Private

\* RepositoryListByOrgOptions{Type}: only the repositories of that type
ListByType(list, tpe) == SelectSeq(list, LAMBDA r : MatchesType(r, tpe))

\* ------------------------------------------------------------ pure helpers
getBackupDirectoryNames(files) == [i \in 1..Len(files) |-> files[i]]

\* ioutil.ReadDir: the entries sorted by filename
readBackupDirectory(d) == SortedNames(d)

\* names compared as strings.EqualFold would
NameEqFold(a, b) == ToLower(a) = ToLower(b)

\* line 198: fhave == *repo.Name
NameEq(a, b) == a = b

\* the outer loop is left at the first repository found in the cache
RECURSIVE getReposToCloneStopsAtCached(_, _)
getReposToCloneStopsAtCached(files, repos) ==
  IF repos = <<>> THEN <<>>
  ELSE LET repo == Head(repos)
           inCache == \E i \in 1..Len(files) : NameEq(files[i], repo.Name)
       IN IF inCache THEN <<>>
          ELSE <<repo>> \o getReposToCloneStopsAtCached(files, Tail(repos))

RECURSIVE getReposToClone(_, _)
getReposToClone(files, repos) ==
  IF repos = <<>> THEN <<>>
  ELSE LET repo == Head(repos)
           inCache == \E i \in 1..Len(files) : NameEq(files[i], repo.Name)
       IN (IF inCache THEN <<>> ELSE <<repo>>) \o getReposToClone(files, Tail(repos))

\* the variant is chosen by the list of types instead of the affiliation
UsePersonalByTypes(v) == v.Types = <<>>

\* main, line 52: vars.Affiliation == ""
UsePersonal(v) == v.Affiliation = ""

\* a page is appended without the records already accumulated
AppendPageDedup(acc, repos) ==
  acc \o SelectSeq(repos, LAMBDA r : r \notin Range(acc))

\* lines 148-150 and 180-182: every record of the page is appended
AppendPage(acc, repos) == acc \o repos

\* the loop is left at the first page that is not full
LastPageShort(repos) == Len(repos) < PerPage

\* lines 152 and 184: len(repos) == 0
LastPage(repos) == Len(repos) = 0

Fatal == /\ out' = Append(out, <<"fatal">>)
         /\ exitCode' = 1
         /\ pc' = "exit"

\* ------------------------------------------------------------------ actions
\* main, lines 25-38: flag.Parse, usage, loadVars
LoadVars ==
  /\ pc = "loadVars"
  /\ \/ \* no -creds flag: usage and exit status 1
        /\ out' = Append(out, <<"usage">>)
        /\ exitCode' = 1
        /\ pc' = "exit"
        /\ UNCHANGED <<vars, err>>
     \/ \* the file does not exist or does not parse
        /\ err' = TRUE
        /\ Fatal
        /\ UNCHANGED vars
     \/ \E v \in AllVars :
          /\ vars' = v
          /\ err' = FALSE
          /\ pc' = "readDir"
          /\ UNCHANGED <<out, exitCode>>
  /\ UNCHANGED <<disk, github, backupDirFiles, tpeIx, page, ghRepos,
                 availableRepos, reposToClone, ix, numProcessed, updFiles,
                 apiLog, gitLog>>

\* main, lines 40-56: readBackupDirectory, names, choice of the variant
ReadBackupDir ==
  /\ pc = "readDir"
  /\ \/ /\ err' = TRUE
        /\ Fatal
        /\ UNCHANGED <<backupDirFiles, tpeIx, page, ghRepos>>
     \/ /\ err' = FALSE
        /\ backupDirFiles' = getBackupDirectoryNames(readBackupDirectory(disk))
        /\ out' = Append(out, <<"dir", backupDirFiles'>>)
        /\ pc' = IF UsePersonal(vars) THEN "personal" ELSE "org"
        /\ tpeIx' = 1
        /\ page' = 1
        /\ ghRepos' = <<>>
        /\ UNCHANGED exitCode
  /\ UNCHANGED <<vars, disk, github, availableRepos, reposToClone, ix,
                 numProcessed, updFiles, apiLog, gitLog>>

\* readPersonalGithubRepos, lines 137-157: one iteration of the page loop
PersonalPage ==
  /\ pc = "personal"
  /\ LET repos == ListPage(github, page) IN
     \/ \* the request fails: return ghRepos, err
        /\ apiLog' = Append(apiLog, [variant |-> "personal", tpe |-> "owner",
                                     page |-> page, n |-> -1])
        /\ availableRepos' = ghRepos
        /\ err' = TRUE
        /\ pc' = "enumRet"
        /\ UNCHANGED <<ghRepos, page>>
     \/ /\ apiLog' = Append(apiLog, [variant |-> "personal", tpe |-> "owner",
                                     page |-> page, n |-> Len(repos)])
        /\ ghRepos' = AppendPage(ghRepos, repos)
        /\ IF LastPage(repos)
           THEN /\ availableRepos' = ghRepos'
                /\ err' = FALSE
                /\ pc' = "enumRet"
                /\ UNCHANGED page
           ELSE /\ page' = page + 1
                /\ UNCHANGED <<availableRepos, err, pc>>
  /\ UNCHANGED <<vars, disk, github, backupDirFiles, tpeIx, reposToClone, ix,
                 numProcessed, updFiles, gitLog, out, exitCode>>

\* readOrganizationGithubRepos, lines 164-188: one iteration of the page loop
OrgPage ==
  /\ pc = "org"
  /\ tpeIx <= Len(vars.Types)
  /\ LET tpe == vars.Types[tpeIx]
         repos == ListPage(ListByType(github, tpe), page) IN
     \/ /\ apiLog' = Append(apiLog, [variant |-> "org", tpe |-> tpe,
                                     page |-> page, n |-> -1])
        /\ availableRepos' = ghRepos
        /\ err' = TRUE
        /\ pc' = "enumRet"
        /\ UNCHANGED <<ghRepos, page, tpeIx>>
     \/ /\ apiLog' = Append(apiLog, [variant |-> "org", tpe |-> tpe,
                                     page |-> page, n |-> Len(repos)])
        /\ ghRepos' = AppendPage(ghRepos, repos)
        /\ IF LastPage(repos)
           THEN /\ tpeIx' = tpeIx + 1
                /\ page' = 1
           ELSE /\ page' = page + 1
                /\ UNCHANGED tpeIx
        /\ UNCHANGED <<availableRepos, err, pc>>
  /\ UNCHANGED <<vars, disk, github, backupDirFiles, reposToClone, ix,
                 numProcessed, updFiles, gitLog, out, exitCode>>

\* readOrganizationGithubRepos, line 190: the types are exhausted
OrgReturn ==
  /\ pc = "org"
  /\ tpeIx > Len(vars.Types)
  /\ availableRepos' = ghRepos
  /\ err' = FALSE
  /\ pc' = "enumRet"
  /\ UNCHANGED <<vars, disk, github, backupDirFiles, tpeIx, page, ghRepos,
                 reposToClone, ix, numProcessed, updFiles, apiLog, gitLog,
                 out, exitCode>>

\* the enumeration's error is not checked
MainAfterEnumUnchecked ==
  /\ pc = "enumRet"
  /\ reposToClone' = getReposToClone(backupDirFiles, availableRepos)
  /\ out' = out \o <<<<"toProcess", Len(availableRepos)>>,
                     <<"toClone", Len(reposToClone')>>>>
  /\ ix' = 1
  /\ numProcessed' = 0
  /\ pc' = "clone"
  /\ UNCHANGED <<vars, disk, github, backupDirFiles, tpeIx, page, ghRepos,
                 availableRepos, err, updFiles, apiLog, gitLog, exitCode>>

\* main, lines 58-67: error check, counts, getReposToClone
MainAfterEnum ==
  /\ pc = "enumRet"
  /\ IF err
     THEN /\ Fatal
          /\ UNCHANGED <<reposToClone, ix, numProcessed>>
     ELSE /\ reposToClone' = getReposToClone(backupDirFiles, availableRepos)
          /\ out' = out \o <<<<"toProcess", Len(availableRepos)>>,
                             <<"toClone", Len(reposToClone')>>>>
          /\ ix' = 1
          /\ numProcessed' = 0
          /\ pc' = "clone"
          /\ UNCHANGED exitCode
  /\ UNCHANGED <<vars, disk, github, backupDirFiles, tpeIx, page, ghRepos,
                 availableRepos, err, updFiles, apiLog, gitLog>>

\* outcome of `git clone` in the backup directory: it cannot succeed when the
\* target directory already exists (every such directory was made by a clone
\* of this run, so it is not empty); otherwise it may succeed or fail
CloneOutcomes(name, d) == IF name \in d THEN {FALSE} ELSE {TRUE, FALSE}

\* the counter is incremented before the error check
ProcessedCountsFirst(n, ok) == n + 1

\* cloneNonBackedupRepos, lines 219-223: the counter after one invocation
Processed(n, ok) == IF ok THEN n + 1 ELSE n

\* cloneNonBackedupRepos, lines 214-224: one iteration of the loop
CloneStep ==
  /\ pc = "clone"
  /\ ix <= Len(reposToClone)
  /\ LET repo == reposToClone[ix] IN
     \E ok \in CloneOutcomes(repo.Name, disk) :
       /\ out' = Append(out, <<"processing", repo.Name>>)
       /\ gitLog' = Append(gitLog, [cmd |-> "clone", target |-> repo.Name,
                                    existed |-> repo.Name \in disk, ok |-> ok])
       /\ numProcessed' = Processed(numProcessed, ok)
       /\ IF ok
          THEN /\ disk' = disk \cup {repo.Name}
               /\ ix' = ix + 1
               /\ UNCHANGED <<err, pc>>
          ELSE /\ err' = TRUE
               /\ pc' = "cloneRet"
               /\ UNCHANGED <<disk, ix>>
  /\ UNCHANGED <<vars, github, backupDirFiles, tpeIx, page, ghRepos,
                 availableRepos, reposToClone, updFiles, apiLog, exitCode>>

\* cloneNonBackedupRepos, line 225: the list is exhausted
CloneReturn ==
  /\ pc = "clone"
  /\ ix > Len(reposToClone)
  /\ err' = FALSE
  /\ pc' = "cloneRet"
  /\ UNCHANGED <<vars, disk, github, backupDirFiles, tpeIx, page, ghRepos,
                 availableRepos, reposToClone, ix, numProcessed, updFiles,
                 apiLog, gitLog, out, exitCode>>

\* main, lines 70-74
MainAfterClone ==
  /\ pc = "cloneRet"
  /\ IF err
     THEN Fatal
     ELSE /\ out' = Append(out, <<"cloned", numProcessed>>)
          /\ pc' = "update"
          /\ UNCHANGED exitCode
  /\ UNCHANGED <<vars, disk, github, backupDirFiles, tpeIx, page, ghRepos,
                 availableRepos, err, reposToClone, ix, numProcessed, updFiles,
                 apiLog, gitLog>>

\* the listing main took before the enumeration is reused
UpdateListingReused(d, earlier) == earlier

\* the listing updateAllCachedRepos works on: d is the directory now, earlier
\* the listing main took before the enumeration
UpdateListing(d, earlier) == readBackupDirectory(d)

\* updateAllCachedRepos, lines 229-236
UpdateReadDir ==
  /\ pc = "update"
  /\ numProcessed' = 0
  /\ \/ /\ err' = TRUE
        /\ pc' = "updateRet"
        /\ UNCHANGED <<updFiles, ix>>
     \/ /\ err' = FALSE
        /\ updFiles' = UpdateListing(disk, backupDirFiles)
        /\ ix' = 1
        /\ pc' = "fetch"
  /\ UNCHANGED <<vars, disk, github, backupDirFiles, tpeIx, page, ghRepos,
                 availableRepos, reposToClone, apiLog, gitLog, out, exitCode>>

\* updateAllCachedRepos, lines 238-247: one iteration of the loop
FetchStep ==
  /\ pc = "fetch"
  /\ ix <= Len(updFiles)
  /\ \E ok \in BOOLEAN :
       /\ out' = Append(out, <<"processing", updFiles[ix]>>)
       /\ gitLog' = Append(gitLog, [cmd |-> "fetch", target |-> updFiles[ix],
                                    existed |-> updFiles[ix] \in disk, ok |-> ok])
       /\ IF ok
          THEN /\ numProcessed' = numProcessed + 1
               /\ ix' = ix + 1
               /\ UNCHANGED <<err, pc>>
          ELSE /\ err' = TRUE
               /\ pc' = "updateRet"
               /\ UNCHANGED <<numProcessed, ix>>
  /\ UNCHANGED <<vars, disk, github, backupDirFiles, tpeIx, page, ghRepos,
                 availableRepos, reposToClone, updFiles, apiLog, exitCode>>

\* updateAllCachedRepos, line 248: the listing is exhausted
FetchReturn ==
  /\ pc = "fetch"
  /\ ix > Len(updFiles)
  /\ err' = FALSE
  /\ pc' = "updateRet"
  /\ UNCHANGED <<vars, disk, github, backupDirFiles, tpeIx, page, ghRepos,
                 availableRepos, reposToClone, ix, numProcessed, updFiles,
                 apiLog, gitLog, out, exitCode>>

\* main, lines 77-82
MainAfterUpdate ==
  /\ pc = "updateRet"
  /\ IF err
     THEN Fatal
     ELSE /\ out' = Append(out, <<"updated", numProcessed>>)
          /\ exitCode' = 0
          /\ pc' = "done"
  /\ UNCHANGED <<vars, disk, github, backupDirFiles, tpeIx, page, ghRepos,
                 availableRepos, err, reposToClone, ix, numProcessed, updFiles,
                 apiLog, gitLog>>

\* ----------------------------------------------------------- specifications
InitCommon ==
  /\ vars = ZeroVars
  /\ tpeIx = 1
  /\ page = 1
  /\ ghRepos = <<>>
  /\ err = FALSE
  /\ reposToClone = <<>>
  /\ ix = 1
  /\ numProcessed = 0
  /\ updFiles = <<>>
  /\ apiLog = <<>>
  /\ gitLog = <<>>
  /\ out = <<>>
  /\ exitCode = -1

\* the whole run, on a small backup directory and a small remote account whose
\* repositories have distinct names
Init ==
  /\ InitCommon
  /\ pc = "loadVars"
  /\ backupDirFiles = <<>>
  /\ availableRepos = <<>>
  /\ disk \in SUBSET NamePool
  /\ github \in {g \in SeqsUpTo(Repos(NamePool), MaxRemote) :
                   NoRepeat([i \in 1..Len(g) |-> g[i].Name])}

Next ==
  \/ LoadVars
  \/ ReadBackupDir
  \/ PersonalPage
  \/ OrgPage
  \/ OrgReturn
  \/ MainAfterEnum
  \/ CloneStep
  \/ CloneReturn
  \/ MainAfterClone
  \/ UpdateReadDir
  \/ FetchStep
  \/ FetchReturn
  \/ MainAfterUpdate

Spec == Init /\ [][Next]_svars

\* the enumeration alone, on remote accounts of one to several pages
BulkTotals ==
  {k * PerPage + d : k \in 0..MaxPages, d \in {-1, 0, 1, PerPage \div 2}} \cap Nat

BulkGithub(total, split) ==
  [i \in 1..total |->
     [Name |-> RepoName(i),
      Private |-> IF split = "mixed" THEN i % 2 = 0 ELSE split = "private"]]

InitBulk ==
  /\ InitCommon
  /\ pc = "loadVars"
  /\ backupDirFiles = <<>>
  /\ availableRepos = <<>>
  /\ disk = {}
  /\ \E total \in BulkTotals, split \in {"public", "private", "mixed"} :
       github = BulkGithub(total, split)

NextEnum ==
  \/ LoadVars
  \/ ReadBackupDir
  \/ PersonalPage
  \/ OrgPage
  \/ OrgReturn

SpecBulk == InitBulk /\ [][NextEnum]_svars

\* getReposToClone alone, on arbitrary lists (repeated names included)
DiffNames == NamePool \cup {NameC}

InitDiff ==
  /\ InitCommon
  /\ pc = "enumRet"
  /\ disk = {}
  /\ github = <<>>
  /\ \E L \in SeqsUpTo(DiffNames, MaxLen), R \in SeqsUpTo(Repos(DiffNames), MaxLen) :
       /\ backupDirFiles = L
       /\ availableRepos = R

NextDiff == MainAfterEnum

SpecDiff == InitDiff /\ [][NextDiff]_svars
\* ------------------------------------------------------- derived histories
CloneCalls == SelectSeq(gitLog, LAMBDA c : c.cmd = "clone")
FetchCalls == SelectSeq(gitLog, LAMBDA c : c.cmd = "fetch")
Last(s) == s[Len(s)]
CeilDiv(a, b) == (a + b - 1) \div b
NamesOf(repos) == [i \in 1..Len(repos) |-> repos[i].Name]

\* ------------------------------------------------------------------ claims
\* indices of the remote records whose name equals no local name
C1_Kept ==
  {i \in 1..Len(availableRepos) :
     \A j \in 1..Len(backupDirFiles) : backupDirFiles[j] # availableRepos[i].Name}

\* the k-th smallest index of C1_Kept
C1_KthKept(k) ==
  CHOOSE i \in C1_Kept : Cardinality({j \in C1_Kept : j <= i}) = k

\* C1: getReposToClone(L, R) is exactly the records of R whose name equals no
\* element of L (exact, case-sensitive equality), in R's order, each as often
\* as it is kept in R; L = [a, b] and R = [a, c] gives [c].
C1_ToCloneIsDifference ==
  /\ pc = "clone" =>
       /\ Len(reposToClone) = Cardinality(C1_Kept)
       /\ \A k \in 1..Len(reposToClone) :
            reposToClone[k] = availableRepos[C1_KthKept(k)]
  /\ getReposToClone(<<NameA, NameB>>,
                     <<[Name |-> NameA, Private |-> FALSE],
                       [Name |-> NameC, Private |-> FALSE]>>)
       = <<[Name |-> NameC, Private |-> FALSE]>>

\* names that differ only in case are different names
C1_WitnessCase ==
  /\ pc = "clone"
  /\ backupDirFiles = <<NameA, NameUpperA>>
  /\ NamesOf(availableRepos) = <<NameB, NameB>>
  /\ reposToClone = availableRepos

\* the example: L = [a, b], R = [a, c]
C1_Witness ==
  /\ pc = "clone"
  /\ backupDirFiles = <<NameA, NameB>>
  /\ NamesOf(availableRepos) = <<NameA, NameC>>
  /\ NamesOf(reposToClone) = <<NameC>>
\* C2: both loops run in list order and stop at the first failing git
\* invocation: when the k-th item is the first to fail the count returned is
\* k-1, the error is returned and nothing is invoked for the later items;
\* without a failure (the empty list included) the count is the length of the
\* list and the error is nil; no remote repository means no clone and count 0.
C2_StopAtFirstFailure ==
  /\ \A i \in 1..(Len(gitLog) - 1) : gitLog[i].ok
  /\ \A i \in 1..Len(CloneCalls) :
       i <= Len(reposToClone) /\ CloneCalls[i].target = reposToClone[i].Name
  /\ \A i \in 1..Len(FetchCalls) :
       i <= Len(updFiles) /\ FetchCalls[i].target = updFiles[i]
  /\ pc = "cloneRet" =>
       /\ err <=> (CloneCalls # <<>> /\ ~Last(CloneCalls).ok)
       /\ err => numProcessed = Len(CloneCalls) - 1
       /\ ~err => /\ Len(CloneCalls) = Len(reposToClone)
                  /\ numProcessed = Len(reposToClone)
       /\ availableRepos = <<>> => CloneCalls = <<>> /\ numProcessed = 0 /\ ~err
  /\ pc = "updateRet" =>
       /\ FetchCalls # <<>> => (err <=> ~Last(FetchCalls).ok)
       /\ err /\ FetchCalls # <<>> => numProcessed = Len(FetchCalls) - 1
       /\ ~err => /\ Len(FetchCalls) = Len(updFiles)
                  /\ numProcessed = Len(updFiles)

\* the second of three clones fails: count 1, the third is never attempted
C2_Witness ==
  /\ pc = "cloneRet"
  /\ err
  /\ Len(reposToClone) = 3
  /\ Len(CloneCalls) = 2
  /\ CloneCalls[2].existed = FALSE
  /\ numProcessed = 1

\* the same in the update phase
C2_WitnessFetch ==
  /\ pc = "updateRet"
  /\ err
  /\ Len(updFiles) = 3
  /\ Len(FetchCalls) = 2
  /\ numProcessed = 1

\* the update phase has read its listing
UpdateListed ==
  \/ pc = "fetch"
  \/ FetchCalls # <<>>
  \/ pc \in {"updateRet", "done"} /\ ~err

\* C4: the update phase lists the backup directory afresh after the clone
\* phase: every directory made by a successful clone of this run is an entry
\* of that listing, and is fetched once the loop has reached it.
C4_UpdateSeesClones ==
  UpdateListed =>
    \A k \in 1..Len(CloneCalls) :
      CloneCalls[k].ok =>
        \E i \in 1..Len(updFiles) :
          /\ updFiles[i] = CloneCalls[k].target
          /\ (pc = "done" \/ (pc = "fetch" /\ ix > i)) =>
               /\ Len(FetchCalls) >= i
               /\ FetchCalls[i].target = CloneCalls[k].target

\* a complete run fetched a directory that a clone of this run made
C4_Witness ==
  /\ pc = "done"
  /\ \E k \in 1..Len(CloneCalls), i \in 1..Len(FetchCalls) :
       /\ CloneCalls[k].ok
       /\ FetchCalls[i].target = CloneCalls[k].target
       /\ \A j \in 1..Len(backupDirFiles) : backupDirFiles[j] # CloneCalls[k].target

\* C5: when a clone or a fetch fails part-way, the count of the items
\* processed in that phase before the failure is printed before the exit.
C5_PartialCountPrinted ==
  (pc = "exit" /\ gitLog # <<>> /\ ~Last(gitLog).ok) =>
    \E i \in 1..Len(out) :
      /\ out[i][1] = (IF Last(gitLog).cmd = "clone" THEN "cloned" ELSE "updated")
      /\ out[i][2] = numProcessed

\* C9: every clone attempted targets a name that is absent from the backup
\* directory at the moment of the attempt.
C9_CloneTargetsAbsent ==
  \A i \in 1..Len(CloneCalls) : ~CloneCalls[i].existed

\* C10: when the run completes without error, every enumerated repository's
\* name is an entry of the backup directory, as many clones were made as the
\* to-clone list is long, and each entry of the directory as listed after
\* cloning was fetched exactly once.
C10_CompleteRun ==
  pc = "done" =>
    /\ \A i \in 1..Len(availableRepos) : availableRepos[i].Name \in disk
    /\ Len(CloneCalls) = Len(reposToClone)
    /\ \A i \in 1..Len(CloneCalls) : CloneCalls[i].ok
    /\ disk = Range(backupDirFiles) \cup Range(NamesOf(availableRepos))
    /\ \A n \in disk :
         Cardinality({i \in 1..Len(FetchCalls) : FetchCalls[i].target = n}) = 1
    /\ \A i \in 1..Len(FetchCalls) : FetchCalls[i].target \in disk /\ FetchCalls[i].ok
    /\ exitCode = 0

\* a complete run that cloned one repository and fetched also an entry that
\* matches no remote repository
C10_Witness ==
  /\ pc = "done"
  /\ Len(CloneCalls) = 1
  /\ Len(availableRepos) = 2
  /\ \E n \in disk : n \notin Range(NamesOf(availableRepos))
  /\ Len(FetchCalls) = 3
\* the requests follow the loop: page 1 first, the next page after a page
\* that is not empty, page 1 of the next type after an empty page, and
\* nothing after an error
PagesInOrder ==
  /\ apiLog # <<>> => apiLog[1].page = 1
  /\ \A i \in 1..(Len(apiLog) - 1) :
       /\ apiLog[i].n >= 0
       /\ apiLog[i].n > 0 => /\ apiLog[i + 1].page = apiLog[i].page + 1
                             /\ apiLog[i + 1].tpe = apiLog[i].tpe
       /\ apiLog[i].n = 0 => apiLog[i + 1].page = 1

\* C3 as stated: for a remote total of T repositories the pages fetched are
\* ceil(T/100), plus one empty page when T is a multiple of 100.
C3_PagesAsStated ==
  (pc = "enumRet" /\ ~err /\ UsePersonal(vars)) =>
    Len(apiLog) = CeilDiv(Len(github), PerPage)
                    + (IF Len(github) % PerPage = 0 THEN 1 ELSE 0)

\* C3, amended: the enumeration starts at page 1 with page size 100, goes to
\* the next page after each page that is not empty and ends exactly when a
\* page is empty; for a remote total of T repositories the pages fetched are
\* ceil(T/100) + 1, the empty last page always being one of them.
C3_PagesFetched ==
  /\ PagesInOrder
  /\ \A i \in 1..Len(apiLog) :
       apiLog[i].n >= 0 => apiLog[i].n <= PerPage
  /\ (pc = "enumRet" /\ ~err /\ UsePersonal(vars)) =>
       /\ Len(apiLog) = CeilDiv(Len(github), PerPage) + 1
       /\ \A i \in 1..Len(apiLog) :
            /\ apiLog[i].page = i
            /\ apiLog[i].n = Len(ListPage(github, i))
            /\ apiLog[i].n = 0 <=> i = Len(apiLog)
       /\ availableRepos = github

\* 150 repositories: two pages with items and the empty third one
C3_Witness ==
  /\ pc = "enumRet"
  /\ ~err
  /\ UsePersonal(vars)
  /\ Len(github) = PerPage + PerPage \div 2
  /\ Len(apiLog) = 3

\* what the logs and the position of main say about a failure that occurred
C6_State ==
  /\ err => pc \in {"enumRet", "cloneRet", "updateRet", "exit"}
  /\ pc = "exit" => exitCode = 1 /\ Last(out)[1] \in {"fatal", "usage"}
  /\ exitCode = 0 <=> pc = "done"
  /\ (pc = "exit" /\ Len(out) = 1) => apiLog = <<>> /\ gitLog = <<>>
  /\ (apiLog # <<>> /\ Last(apiLog).n = -1) =>
       /\ pc \in {"enumRet", "exit"}
       /\ gitLog = <<>>
       /\ reposToClone = <<>>
  /\ (CloneCalls # <<>> /\ ~Last(CloneCalls).ok) =>
       /\ pc \in {"cloneRet", "exit"}
       /\ FetchCalls = <<>>
  /\ (FetchCalls # <<>> /\ ~Last(FetchCalls).ok) => pc \in {"updateRet", "exit"}

\* the only step after an error is the exit with status 1
C6_Step ==
  err => /\ pc' = "exit"
         /\ exitCode' = 1
         /\ gitLog' = gitLog
         /\ apiLog' = apiLog

\* C6: a fatal error ends the run where it occurs: after a configuration, a
\* directory or an API failure nothing is cloned or fetched (what was
\* enumerated before an API error is not cloned), after a clone failure
\* nothing is fetched, and the run ends with a non-zero exit status.
C6_FatalEndsRun == [](C6_State) /\ [][C6_Step]_svars

\* an API error on the third request of an organization, after repositories
\* that are not in the backup directory were accumulated
C6_Witness ==
  /\ pc = "exit"
  /\ Len(apiLog) = 3
  /\ Last(apiLog).n = -1
  /\ availableRepos # <<>>
  /\ \E i \in 1..Len(availableRepos) : availableRepos[i].Name \notin disk

RECURSIVE C7_Concat(_)
C7_Concat(types) ==
  IF types = <<>> THEN <<>>
  ELSE ListByType(github, Head(types)) \o C7_Concat(Tail(types))

\* C7: in organization mode the result is the concatenation, in the
\* configured order of the types, of each type's whole listing, without
\* deduplication; an API error returns what was accumulated so far and no
\* further page or type is requested.
C7_OrgConcatenation ==
  /\ \A i \in 1..(Len(apiLog) - 1) : apiLog[i].n >= 0
  /\ (pc = "enumRet" /\ ~UsePersonal(vars)) =>
       /\ ~err => availableRepos = C7_Concat(vars.Types)
       /\ err =>
            /\ Last(apiLog).n = -1
            /\ Last(apiLog).tpe = vars.Types[tpeIx]
            /\ Last(apiLog).page = page
            /\ availableRepos =
                 C7_Concat(SubSeq(vars.Types, 1, tpeIx - 1))
                   \o SubSeq(ListByType(github, vars.Types[tpeIx]), 1,
                             Min((page - 1) * PerPage,
                                 Len(ListByType(github, vars.Types[tpeIx]))))

\* a repository listed under both configured types is in the result twice,
\* in a result of more than one page
C7_Witness ==
  /\ pc = "enumRet"
  /\ ~err
  /\ ~UsePersonal(vars)
  /\ vars.Types = <<"all", "public">>
  /\ Len(github) > PerPage
  /\ Len(availableRepos) = 2 * Len(github)
  /\ availableRepos[1] = availableRepos[Len(github) + 1]

\* an API error on the second page of the second type
C7_WitnessError ==
  /\ pc = "enumRet"
  /\ err
  /\ ~UsePersonal(vars)
  /\ tpeIx = 2
  /\ page = 2
  /\ Len(availableRepos) > PerPage

\* C8: one enumeration variant runs, chosen by the affiliation: the personal
\* one exactly when the affiliation is the empty string, the organization one
\* otherwise; in personal mode the result does not depend on the types.
C8_VariantByAffiliation ==
  /\ pc = "personal" => vars.Affiliation = ""
  /\ pc = "org" => vars.Affiliation # ""
  /\ \A i \in 1..Len(apiLog) :
       apiLog[i].variant = (IF vars.Affiliation = "" THEN "personal" ELSE "org")
  /\ (pc \in {"enumRet", "clone", "cloneRet", "update", "fetch", "updateRet", "done"}
        /\ vars.Affiliation = "") => apiLog # <<>>
  /\ (pc = "enumRet" /\ ~err /\ vars.Affiliation = "") => availableRepos = github
  /\ (pc = "enumRet" /\ ~err /\ vars.Affiliation # "") =>
       Len(availableRepos) = Len(C7_Concat(vars.Types))

\* personal mode with types configured: public repositories are listed
C8_Witness ==
  /\ pc = "enumRet"
  /\ ~err
  /\ vars.Affiliation = ""
  /\ vars.Types = <<"private", "private">>
  /\ \E i \in 1..Len(availableRepos) : ~availableRepos[i].Private
====
